---- MODULE Spec2Model ----
(***************************************************************************)
(* Model of the match and room orchestration of src/src/server.js: the     *)
(* matchmaking queue, the room store, the guess protocol, the grace-delay  *)
(* teardown, the periodic cleanup and the connection tracking.             *)
(*                                                                         *)
(* Every socket.io handler runs to completion, so each handler is one      *)
(* action.  The handlers that suspend, handleMatchmaking and gameEnd at    *)
(* their awaits of PlayerStats, are two actions each: the part before the  *)
(* await and the continuation after it.  The index.js server, an earlier   *)
(* program of the same repository, is modelled in a section of its own.    *)
(*                                                                         *)
(* A handler is an operator (named as in the source) from the state it     *)
(* runs in and its arguments to a record: S, T and P are the collections,  *)
(* the timers and the suspended continuations it leaves, out is what it    *)
(* emitted, in order.  The action of the handler commits S, T and P.       *)
(***************************************************************************)
EXTENDS Integers, Sequences, FiniteSets, TLC

\* ------------------------------------------------------------- bounds ----
\* connection (socket) ids, each used for one transport session
Conns == {"a", "b", "c"}
\* the room codes generateRoomCode can return in this model
Codes == {"X1", "Y2"}
\* the connections and the code of the specifications that run every handler
TwoConns == {"a", "b"}
OneCode == {"X1"}
\* identities of room objects that are referenced at the same time
MaxRoomObjects == 2
\* guesses one player's sequence holds before the model stops accepting more
MaxGuessLen == 1
\* the same, in the specification of one long game
MaxGameLen == 7
\* how many times the clock advances
MaxTicks == 1
\* handleMatchmaking continuations suspended at the same time
MaxPending == 1
\* grace timers pending at the same time
MaxTimers == 1
\* entries of matchmakingQueue (the catch block of handleMatchmaking can add
\* an id that is already queued, so the array has no bound of its own)
MaxQueueLen == 3
\* gameEnd calls suspended at an await at the same time
MaxEnding == 1
\* updateStats calls counted per game and player
MaxStatsCalls == 2

\* ---------------------------------------------------------- constants ----
\* room.players.length >= 2: the seats of a room
RoomSize == 2
\* playerGuesses.length >= 6: the per-player guess count of a draw
GuessCap == 6
\* 30 * 60 * 1000 ms, in minutes
InactiveAge == 30
\* the clock of the model advances an hour at a time
TickMinutes == 60

None == "none"
NoRoom == 0
RoomIds == 1..MaxRoomObjects

\* the word list of utils/wordle-list.json (lower case), and what clients send
WordList == {"crane"}
GuessWords == {"crane", "SLATE"}
\* room codes as clients send them: joinRoom upper-cases, makeGuess does not
CodeInputs == Codes \cup {"x1", ""}
\* the guessNumber field of makeGuess, supplied by the client
GuessNumbers == {1, 3}
UserIds == {"u1"}

\* String.prototype.toUpperCase on the strings of this model
toUpperCase(s) ==
  CASE s = "crane" -> "CRANE"
    [] s = "slate" -> "SLATE"
    [] s = "x1" -> "X1"
    [] OTHER -> s

VARIABLES
  sockets,            \* io.sockets.sockets: id -> "fresh" | "connected" | "closed"
  userId,             \* socket.userId: id -> user id or None
  joined,             \* socket.io room membership (socket.join): id -> set of codes
  gameRooms,          \* Map roomCode -> room object (NoRoom: no entry)
  rooms,              \* the room objects, by identity; guesses[id] = <<>>: no entry
  matchmakingQueue,   \* array of ids
  activeConnections,  \* Set of ids
  socketRooms,        \* Map id -> roomCode (None: no entry)
  socketTypes,        \* Map id -> "matchmaking" | "game" (None: no entry)
  timers,             \* pending setTimeout closures of makeGuess: <<roomCode, room>>
  pending,            \* handleMatchmaking calls suspended at await getStats
  ending,             \* gameEnd calls suspended at an await of the Stats Service
  updateStatsCalls,   \* PlayerStats.updateStats calls made: room object -> id -> count
  index,              \* the index.js server, a process of its own: its rooms,
                      \* matchmakingQueue, sockets, currentRoom closures and timers
  now                 \* new Date(), in minutes since the server started

vars == <<sockets, userId, joined, gameRooms, rooms, matchmakingQueue,
          activeConnections, socketRooms, socketTypes, timers, pending,
          ending, updateStatsCalls, index, now>>

\* ------------------------------------------------------------ helpers ----
Range(s) == {s[i] : i \in 1..Len(s)}

\* Array.prototype.filter(id => id !== x)
Without(s, x) == SelectSeq(s, LAMBDA y : y # x)

\* Array.prototype.indexOf, 1-based; 0 when absent
indexOf(s, x) ==
  IF x \in Range(s) THEN CHOOSE i \in 1..Len(s) : s[i] = x /\ \A j \in 1..(i-1) : s[j] # x
  ELSE 0

\* splice(indexOf(x), 1): removes the first occurrence of x
SpliceOut(s, x) ==
  LET i == indexOf(s, x)
  IN IF i = 0 THEN s ELSE SubSeq(s, 1, i-1) \o SubSeq(s, i+1, Len(s))

\* socket?.connected for io.sockets.sockets.get(id)
IsConnected(c) == sockets[c] = "connected"

\* io.to(roomCode) reaching the sockets whose tracked room is roomCode instead
InRoomTracked(J, code) == {c \in Conns : socketRooms[c] = code}

\* the sockets io.to(roomCode) reaches
InRoom(J, code) == {c \in Conns : code \in J[c]}

Emit(ev, to, body) == [ev |-> ev, to |-> to, body |-> body]

\* the server's collections as one value, threaded through the helper functions
State == [gameRooms |-> gameRooms, rooms |-> rooms,
          matchmakingQueue |-> matchmakingQueue,
          activeConnections |-> activeConnections,
          socketRooms |-> socketRooms, socketTypes |-> socketTypes,
          joined |-> joined, ending |-> ending,
          updateStatsCalls |-> updateStatsCalls]

\* a room object nothing refers to any more
FreeRoom == [players |-> <<>>, targetWord |-> None, status |-> None,
             guesses |-> [c \in Conns |-> <<>>], createdAt |-> 0,
             isQuickMatch |-> FALSE]

\* room objects still reachable from the map, a timer closure or a continuation
Referenced(S, T, P) ==
  {S.gameRooms[k] : k \in Codes} \cup {t[2] : t \in Range(T)} \cup {p.room : p \in P}
    \cup {e.room : e \in S.ending}

\* garbage collection: an unreachable room object is forgotten; of an object
\* that only a timer closure or a continuation still holds, only the fields
\* they read (players, targetWord) are kept; a gameEnd call reads the guesses
\* too.  The updateStats calls counted for a forgotten object go with it
Collect(S, T, P) ==
  [S EXCEPT !.rooms = [r \in RoomIds |->
      IF r \in {S.gameRooms[k] : k \in Codes} THEN S.rooms[r]
      ELSE IF r \in {e.room : e \in S.ending}
      THEN [FreeRoom EXCEPT !.players = S.rooms[r].players,
                            !.targetWord = S.rooms[r].targetWord,
                            !.guesses = S.rooms[r].guesses]
      ELSE IF r \in Referenced(S, T, P)
      THEN [FreeRoom EXCEPT !.players = S.rooms[r].players,
                            !.targetWord = S.rooms[r].targetWord]
      ELSE FreeRoom],
            !.updateStatsCalls = [r \in RoomIds |->
      IF r \in Referenced(S, T, P) THEN S.updateStatsCalls[r]
      ELSE [c \in Conns |-> 0]]]

Result(S, T, P, emitted) == [S |-> S, T |-> T, P |-> P, out |-> emitted]

\* the handler did nothing but emit
Unchanged(emitted) == Result(State, timers, pending, emitted)

\* the handler's result res becomes the next state, after garbage collection
Commit(r) ==
  \E res \in {r} : \E G \in {Collect(res.S, res.T, res.P)} :
     /\ Len(G.matchmakingQueue) <= MaxQueueLen
     /\ gameRooms' = G.gameRooms
     /\ rooms' = G.rooms
     /\ matchmakingQueue' = G.matchmakingQueue
     /\ activeConnections' = G.activeConnections
     /\ socketRooms' = G.socketRooms
     /\ socketTypes' = G.socketTypes
     /\ joined' = G.joined
     /\ ending' = G.ending
     /\ updateStatsCalls' = G.updateStatsCalls
     /\ timers' = res.T
     /\ pending' = res.P
     /\ index' = index

\* forEach(playerId => { socketRooms.delete; socketTypes.delete; activeConnections.delete })
ForgetPlayers(S, ps) ==
  [S EXCEPT !.socketRooms = [c \in Conns |-> IF c \in ps THEN None ELSE @[c]],
            !.socketTypes = [c \in Conns |-> IF c \in ps THEN None ELSE @[c]],
            !.activeConnections = @ \ ps]

\* ------------------------------------------------------ cleanupPlayer ----
cleanupPlayer(S, playerId) ==
  LET S1 == [S EXCEPT !.activeConnections = @ \ {playerId},
                      !.matchmakingQueue = SpliceOut(@, playerId)]
      roomCode == S1.socketRooms[playerId]
      rid == IF roomCode = None THEN NoRoom ELSE S1.gameRooms[roomCode]
      S2 == IF rid = NoRoom THEN S1
            ELSE LET left == Without(S1.rooms[rid].players, playerId)
                     Sa == [S1 EXCEPT
                              !.rooms[rid].players = left,
                              !.rooms[rid].guesses[playerId] = <<>>]
                 IN IF Len(left) = 0 \/ (Sa.rooms[rid].isQuickMatch /\ Len(left) = 1)
                    THEN [ForgetPlayers(Sa, Range(left)) EXCEPT
                            !.gameRooms[roomCode] = NoRoom]
                    ELSE Sa
  IN [S2 EXCEPT !.socketRooms[playerId] = None,
                !.socketTypes[playerId] = None]

\* --------------------------------------------- syncConnectionTracking ----
RECURSIVE CleanupEach(_, _)
\* for (const socketId of activeConnections) if (!connected) cleanupPlayer(socketId):
\* an id that an earlier cleanupPlayer deleted from the Set is not visited
CleanupEach(S, todo) ==
  IF todo = {} THEN S
  ELSE LET c == CHOOSE x \in todo : TRUE
       IN IF c \in S.activeConnections
          THEN CleanupEach(cleanupPlayer(S, c), todo \ {c})
          ELSE CleanupEach(S, todo \ {c})

\* syncConnectionTracking without its second loop, which adds the untracked
syncConnectionTrackingNoAdd(S, connectedSockets) ==
  CleanupEach(S, S.activeConnections \ connectedSockets)

syncConnectionTracking(S, connectedSockets) ==
  LET S1 == CleanupEach(S, S.activeConnections \ connectedSockets)
  IN [S1 EXCEPT !.activeConnections = @ \cup connectedSockets]

\* return connectedSockets.size
syncCount(connectedSockets) == Cardinality(connectedSockets)

\* the Set connectedSockets that syncConnectionTracking builds
ConnectedSockets(sk) == {c \in Conns : sk[c] = "connected"}

\* ----------------------------------------------------- createGameRoom ----
NewRoom(players, word, status, quick) ==
  [players |-> players, targetWord |-> toUpperCase(word), status |-> status,
   guesses |-> [c \in Conns |-> <<>>], createdAt |-> now, isQuickMatch |-> quick]

\* createGameRoom storing the room as createRoom does, with status 'waiting'
createGameRoomWaiting(S, player1Id, player2Id, roomCode, word, rid) ==
  [S EXCEPT !.gameRooms[roomCode] = rid,
            !.rooms[rid] = NewRoom(<<player1Id, player2Id>>, word, "waiting", TRUE),
            !.socketRooms[player1Id] = roomCode,
            !.socketRooms[player2Id] = roomCode,
            !.joined[player1Id] = @ \cup {roomCode},
            !.joined[player2Id] = @ \cup {roomCode}]

\* the state after createGameRoom(player1Id, player2Id) stored its room under
\* roomCode (generateRoomCode's value) as object rid
createGameRoom(S, player1Id, player2Id, roomCode, word, rid) ==
  [S EXCEPT !.gameRooms[roomCode] = rid,
            !.rooms[rid] = NewRoom(<<player1Id, player2Id>>, word, "playing", TRUE),
            !.socketRooms[player1Id] = roomCode,
            !.socketRooms[player2Id] = roomCode,
            !.joined[player1Id] = @ \cup {roomCode},
            !.joined[player2Id] = @ \cup {roomCode}]

\* ---------------------------------------------------------------- Init ----
Init ==
  /\ sockets = [c \in Conns |-> "fresh"]
  /\ userId = [c \in Conns |-> None]
  /\ joined = [c \in Conns |-> {}]
  /\ gameRooms = [k \in Codes |-> NoRoom]
  /\ rooms = [r \in RoomIds |-> FreeRoom]
  /\ matchmakingQueue = <<>>
  /\ activeConnections = {}
  /\ socketRooms = [c \in Conns |-> None]
  /\ socketTypes = [c \in Conns |-> None]
  /\ timers = <<>>
  /\ pending = {}
  /\ ending = {}
  /\ updateStatsCalls = [r \in RoomIds |-> [c \in Conns |-> 0]]
  /\ index = [rooms |-> [k \in {} |-> None], matchmakingQueue |-> <<>>,
              sockets |-> [c \in Conns |-> "fresh"],
              currentRoom |-> [c \in Conns |-> None], timers |-> <<>>]
  /\ now = 0

\* a new room object: the smallest one that neither the state the handler
\* started in nor the state S, T, P it has built refers to
Alloc(S, T, P) ==
  LET free == RoomIds \ (Referenced(S, T, P) \cup Referenced(State, timers, pending))
  IN IF free = {} THEN NoRoom ELSE CHOOSE r \in free : \A q \in free : r <= q

\* -------------------------------------------------- io.on('connection') ----
\* socket ids are handed out in the order of Order: the n-th connection gets Order[n]
Order == <<"a", "b", "c">>

connection(c) ==
  Result([State EXCEPT !.activeConnections = @ \cup {c}], timers, pending, <<>>)

Connection(c) ==
  /\ sockets[c] = "fresh"
  /\ \A i \in 1..(indexOf(Order, c) - 1) : sockets[Order[i]] # "fresh"
  /\ sockets' = [sockets EXCEPT ![c] = "connected"]
  /\ UNCHANGED <<userId, now>>
  /\ Commit(connection(c))

\* ------------------------------------------------ socket.on('disconnect') ----
\* socket.io has closed the socket (left its rooms, removed it from
\* io.sockets.sockets) when the handler runs
disconnect(c) ==
  LET S0 == [State EXCEPT !.joined[c] = {}]
      roomCode == S0.socketRooms[c]
      S1 == cleanupPlayer(S0, c)
      S2 == syncConnectionTracking(S1, ConnectedSockets(sockets) \ {c})
  IN Result(S2, timers, pending,
            IF roomCode # None
            THEN <<Emit("playerLeft", InRoom(S1.joined, roomCode), [playerId |-> c])>>
            ELSE <<>>)

Disconnect(c) ==
  /\ IsConnected(c)
  /\ sockets' = [sockets EXCEPT ![c] = "closed"]
  /\ UNCHANGED <<userId, now>>
  /\ Commit(disconnect(c))

\* ------------------------------------------------ socket.on('createRoom') ----
\* roomCode is the code the do ... while loop ends with, word getRandomWord's
createRoom(c, roomCode, word) ==
  LET rid == Alloc(State, timers, pending)
      S1 == [State EXCEPT !.gameRooms[roomCode] = rid,
                          !.rooms[rid] = NewRoom(<<c>>, word, "waiting", FALSE),
                          !.socketRooms[c] = roomCode,
                          !.socketTypes[c] = "game",
                          !.joined[c] = @ \cup {roomCode}]
  IN Result(S1, timers, pending,
            << Emit("callback", {c}, [success |-> TRUE, roomCode |-> roomCode,
                                      playerId |-> c, players |-> <<c>>]),
               Emit("roomCreated", {c}, [roomCode |-> roomCode, playerId |-> c,
                                         players |-> <<c>>]),
               Emit("waitingForPlayer", {c}, None) >>)

CreateRoom(c, roomCode, word) ==
  /\ IsConnected(c)
  /\ gameRooms[roomCode] = NoRoom          \* do ... while (gameRooms.has(roomCode))
  /\ Alloc(State, timers, pending) # NoRoom
  /\ UNCHANGED <<sockets, userId, now>>
  /\ Commit(createRoom(c, roomCode, word))

\* ------------------------------------------------------ handleJoinRoom ----
\* the error of joinRoom sent with io.emit, to every socket
JoinErrorToAll(c, msg) == <<Emit("callback", Conns, [success |-> FALSE, error |-> msg])>>

JoinError(c, msg) == <<Emit("callback", {c}, [success |-> FALSE, error |-> msg])>>

handleJoinRoom(c, input) ==
  LET roomCode == toUpperCase(input)
      rid == IF roomCode \in Codes THEN gameRooms[roomCode] ELSE NoRoom
      room == rooms[rid]
  IN IF roomCode = "" THEN Unchanged(JoinError(c, "Invalid room code"))
     ELSE IF rid = NoRoom THEN Unchanged(JoinError(c, "Room not found"))
     ELSE IF Len(room.players) >= RoomSize THEN Unchanged(JoinError(c, "Room is full"))
     ELSE IF c \in Range(room.players)
     THEN Unchanged(<<Emit("callback", {c},
                           [success |-> TRUE, targetWord |-> room.targetWord,
                            players |-> room.players, roomCode |-> roomCode])>>)
     ELSE LET players == Append(room.players, c)
              full == Len(players) = RoomSize
              S1 == [State EXCEPT
                       !.rooms[rid].players = players,
                       !.rooms[rid].status = IF full THEN "playing" ELSE @,
                       !.socketRooms[c] = roomCode,
                       !.socketTypes[c] = "game",
                       !.joined[c] = @ \cup {roomCode}]
              start == [targetWord |-> room.targetWord, players |-> players,
                        roomCode |-> roomCode]
          IN Result(S1, timers, pending,
                    << Emit("callback", {c},
                            [success |-> TRUE, targetWord |-> room.targetWord,
                             players |-> players, roomCode |-> roomCode,
                             playerId |-> c]),
                       Emit("playerJoined", InRoom(S1.joined, roomCode) \ {c},
                            [playerId |-> c, players |-> players]) >>
                    \o (IF full
                        THEN <<Emit("gameStart", InRoom(S1.joined, roomCode), start)>>
                        ELSE <<>>))

JoinRoom(c, input) ==
  /\ IsConnected(c)
  /\ UNCHANGED <<sockets, userId, now>>
  /\ Commit(handleJoinRoom(c, input))

\* ------------------------------------------- socket.on('leaveMatchmaking') ----
leaveMatchmaking(c) ==
  IF indexOf(matchmakingQueue, c) # 0
  THEN Result([State EXCEPT !.matchmakingQueue = SpliceOut(@, c),
                            !.socketTypes[c] = None], timers, pending, <<>>)
  ELSE Unchanged(<<>>)

LeaveMatchmaking(c) ==
  /\ IsConnected(c)
  /\ UNCHANGED <<sockets, userId, now>>
  /\ Commit(leaveMatchmaking(c))

\* ---------------------------------------------- socket.on('authenticate') ----
\* uid = None: the client sent no userId or username; ok: the Stats Service answered
authenticate(c, uid, ok) ==
  IF uid = None THEN <<Emit("authentication_error", {c}, "Missing user data")>>
  ELSE IF ~ok THEN <<Emit("authentication_error", {c}, "Authentication failed")>>
  ELSE <<Emit("authenticated", {c}, uid)>>

Authenticate(c, uid, ok) ==
  /\ IsConnected(c)
  /\ userId' = IF uid # None /\ ok THEN [userId EXCEPT ![c] = uid] ELSE userId
  /\ UNCHANGED <<sockets, now>>
  /\ Commit(Unchanged(authenticate(c, uid, ok)))

\* --------------------------------------------------- handleMatchmaking ----
\* matchmakingQueue.filter(id => socket(id)?.connected && socket(id).userId)
ConnectedPlayers(q) == SelectSeq(q, LAMBDA p : IsConnected(p) /\ userId[p] # None)

\* matchmakingQueue.unshift(p) for each p of ps, in order, that is connected
\* (and authenticated, where the caller asks for it), marking it 'matchmaking'
RECURSIVE Requeue(_, _, _)
Requeue(S, ps, needUser) ==
  IF ps = <<>> THEN S
  ELSE LET p == Head(ps)
           S1 == IF IsConnected(p) /\ (needUser => userId[p] # None)
                 THEN [S EXCEPT !.socketTypes[p] = "matchmaking",
                                !.matchmakingQueue = <<p>> \o @]
                 ELSE S
       IN Requeue(S1, Tail(ps), needUser)

\* the queue handling of handleMatchmaking on the state S1 that cleanupPlayer
\* left: mark the caller, drop the stale entries, append the caller if absent
enqueue(S1, c) ==
  LET q == ConnectedPlayers(S1.matchmakingQueue)
  IN [S1 EXCEPT !.socketTypes[c] = "matchmaking",
                !.matchmakingQueue = IF c \notin Range(q) THEN Append(q, c) ELSE q]

\* the state handleMatchmaking has built when it tests matchmakingQueue.length >= 2
Enqueued(c) == enqueue(cleanupPlayer(State, c), c)

\* player1Socket?.connected && player2Socket?.connected && both userIds
BothReady(player1, player2) ==
  /\ IsConnected(player1) /\ IsConnected(player2)
  /\ userId[player1] # None /\ userId[player2] # None

\* whether the queue q has two entries that handleMatchmaking seats in a room
CanPair(q) == Len(q) >= 2 /\ BothReady(q[1], q[2])

\* whether handleMatchmaking(c) goes on to create a room
Pairs(c) == userId[c] # None /\ CanPair(Enqueued(c).matchmakingQueue)

\* handleMatchmaking once player1 and player2 were shifted off the queue (S4)
startMatch(S4, player1, player2, roomCode, word, emitted) ==
  IF BothReady(player1, player2)
  THEN LET rid == Alloc(S4, timers, pending)
           S5 == createGameRoom(S4, player1, player2, roomCode, word, rid)
       IN Result([S5 EXCEPT !.socketTypes[player1] = "game",
                            !.socketTypes[player2] = "game"],
                 timers,
                 pending \cup {[player1 |-> player1, player2 |-> player2,
                                roomCode |-> roomCode, room |-> rid]},
                 emitted)
  ELSE Result(Requeue(S4, <<player1, player2>>, TRUE), timers, pending, emitted)

\* handleMatchmaking from the test matchmakingQueue.length >= 2 on (S3)
matchPlayers(S3, roomCode, word, emitted) ==
  IF Len(S3.matchmakingQueue) < 2
  THEN Result(S3, timers, pending, emitted)
  ELSE startMatch([S3 EXCEPT !.matchmakingQueue = SubSeq(@, 3, Len(@))],
                  S3.matchmakingQueue[1], S3.matchmakingQueue[2],
                  roomCode, word, emitted)

\* matchmakingJoined goes to a caller that was not queued after the filter
joinedNotice(S1, c) ==
  IF c \notin Range(ConnectedPlayers(S1.matchmakingQueue))
  THEN <<Emit("matchmakingJoined", {c}, None)>>
  ELSE <<>>

\* socket.on('joinMatchmaking') up to the first await of PlayerStats.getStats;
\* roomCode and word are what generateRoomCode and getRandomWord return
\* handleMatchmaking without the socket.userId test at its head
handleMatchmakingNoAuth(c, roomCode, word) ==
  matchPlayers(Enqueued(c), roomCode, word,
               joinedNotice(cleanupPlayer(State, c), c))

handleMatchmaking(c, roomCode, word) ==
  IF userId[c] = None
  THEN Unchanged(<<Emit("matchmakingError", {c}, "Not authenticated")>>)
  ELSE matchPlayers(Enqueued(c), roomCode, word,
                    joinedNotice(cleanupPlayer(State, c), c))

JoinMatchmaking(c, roomCode, word) ==
  /\ IsConnected(c)
  /\ Pairs(c) => /\ Alloc(Enqueued(c), timers, pending) # NoRoom
                 /\ Cardinality(pending) < MaxPending
  /\ UNCHANGED <<sockets, userId, now>>
  /\ Commit(handleMatchmaking(c, roomCode, word))

\* the continuation of handleMatchmaking after its awaits: ok when both
\* PlayerStats.getStats calls resolved, ~ok when one rejected (the catch block)
matchmakingResume(p, ok) ==
  LET room == rooms[p.room]
      start(opp) == [targetWord |-> room.targetWord, players |-> room.players,
                     roomCode |-> p.roomCode, opponentData |-> opp]
      to(x) == IF IsConnected(x) THEN {x} ELSE {}
      failed(x) == IF IsConnected(x)
                   THEN <<Emit("matchmakingError", {x}, "Failed to start game")>>
                   ELSE <<>>
  IN IF ok
     THEN Result(State, timers, pending \ {p},
                 << Emit("gameStart", to(p.player1), start(p.player2)),
                    Emit("gameStart", to(p.player2), start(p.player1)) >>)
     ELSE Result(Requeue(State, <<p.player1, p.player2>>, FALSE), timers, pending \ {p},
                 failed(p.player1) \o failed(p.player2))

MatchmakingResume(p, ok) ==
  /\ p \in pending
  /\ UNCHANGED <<sockets, userId, now>>
  /\ Commit(matchmakingResume(p, ok))

\* -------------------------------------------------- socket.on('makeGuess') ----
\* the setTimeout closure without its socketRooms.delete(playerId)
GraceCleanupKeepsRoomCode(S, roomCode, rid) ==
  IF S.gameRooms[roomCode] # NoRoom
  THEN LET ps == Range(S.rooms[rid].players)
       IN [S EXCEPT !.socketTypes = [c \in Conns |-> IF c \in ps THEN None ELSE @[c]],
                    !.gameRooms[roomCode] = NoRoom]
  ELSE S

\* the body of the setTimeout closure: room is the object the closure captured
GraceCleanup(S, roomCode, rid) ==
  IF S.gameRooms[roomCode] # NoRoom
  THEN LET ps == Range(S.rooms[rid].players)
       IN [S EXCEPT !.socketTypes = [c \in Conns |-> IF c \in ps THEN None ELSE @[c]],
                    !.socketRooms = [c \in Conns |-> IF c \in ps THEN None ELSE @[c]],
                    !.gameRooms[roomCode] = NoRoom]
  ELSE S

\* guess.toUpperCase() === room.targetWord
isCorrect(guess, room) == toUpperCase(guess) = room.targetWord

\* room.players.find(id => id !== socket.id); None for undefined
OtherPlayer(players, c) ==
  LET others == Without(players, c) IN IF others = <<>> THEN None ELSE Head(others)

\* the draw test: the submitter and the other player both have GuessCap guesses
isDraw(room, c, playerGuesses) ==
  /\ Len(playerGuesses) >= GuessCap
  /\ LET otherPlayer == OtherPlayer(room.players, c)
         otherPlayerGuesses == IF otherPlayer = None THEN <<>> ELSE room.guesses[otherPlayer]
     IN Len(otherPlayerGuesses) >= GuessCap

\* whether makeGuess goes past its two early returns
GuessAccepted(c, roomCode) ==
  /\ socketTypes[c] = "game"
  /\ roomCode \in Codes
  /\ gameRooms[roomCode] # NoRoom
  /\ rooms[gameRooms[roomCode]].status = "playing"

makeGuess(c, roomCode, guess, guessNumber) ==
  IF ~GuessAccepted(c, roomCode) THEN Unchanged(<<>>)
  ELSE LET rid == gameRooms[roomCode]
           room == rooms[rid]
           playerNumber == indexOf(room.players, c)
           playerGuesses == Append(room.guesses[c], guess)
           to == InRoom(joined, roomCode)
           update == Emit("guessUpdate", to,
                          [playerId |-> c, playerNumber |-> playerNumber,
                           guess |-> guess, guessNumber |-> guessNumber - 1,
                           isQuickMatch |-> room.isQuickMatch])
           S1 == [State EXCEPT !.rooms[rid].guesses[c] = playerGuesses]
           S2 == [S1 EXCEPT !.rooms[rid].status = "finished"]
       IN IF isCorrect(guess, room)
          THEN Result(S2, Append(timers, <<roomCode, rid>>), pending,
                      <<update,
                        Emit("gameOver", to,
                             [winner |-> c, winnerNumber |-> playerNumber,
                              targetWord |-> room.targetWord])>>)
          ELSE IF isDraw(room, c, playerGuesses)
          THEN Result(S2, Append(timers, <<roomCode, rid>>), pending,
                      <<update,
                        Emit("gameOver", to,
                             [winner |-> None, targetWord |-> room.targetWord,
                              isDraw |-> TRUE])>>)
          ELSE Result(S1, timers, pending, <<update>>)

\* maxLen and MaxTimers bound the guesses a sequence holds and the timers pending
MakeGuess(c, roomCode, guess, guessNumber, maxLen) ==
  /\ IsConnected(c)
  /\ GuessAccepted(c, roomCode) => Len(rooms[gameRooms[roomCode]].guesses[c]) < maxLen
  /\ Len(makeGuess(c, roomCode, guess, guessNumber).T) <= MaxTimers
  /\ UNCHANGED <<sockets, userId, now>>
  /\ Commit(makeGuess(c, roomCode, guess, guessNumber))

\* a setTimeout(..., 5000) of makeGuess fires
graceTimer(i) ==
  Result(GraceCleanup(State, timers[i][1], timers[i][2]),
         SubSeq(timers, 1, i-1) \o SubSeq(timers, i+1, Len(timers)), pending, <<>>)

GraceTimer(i) ==
  /\ i \in 1..Len(timers)
  /\ UNCHANGED <<sockets, userId, now>>
  /\ Commit(graceTimer(i))

\* ------------------------------------------------ cleanupInactiveRooms ----
\* the staleness test without its isInactive half
IsStaleNoTTL(S, roomCode) ==
  LET room == S.rooms[S.gameRooms[roomCode]]
  IN \A i \in 1..Len(room.players) : ~IsConnected(room.players[i])

\* isInactive || hasNoActivePlayers for the room stored under roomCode
IsStale(S, roomCode) ==
  LET room == S.rooms[S.gameRooms[roomCode]]
  IN \/ now - room.createdAt > InactiveAge
     \/ \A i \in 1..Len(room.players) : ~IsConnected(room.players[i])

RECURSIVE SweepRooms(_, _)
SweepRooms(S, todo) ==
  IF todo = {} THEN S
  ELSE LET roomCode == CHOOSE k \in todo : TRUE
           S1 == IF S.gameRooms[roomCode] # NoRoom /\ IsStale(S, roomCode)
                 THEN [ForgetPlayers(S, Range(S.rooms[S.gameRooms[roomCode]].players))
                         EXCEPT !.gameRooms[roomCode] = NoRoom]
                 ELSE S
       IN SweepRooms(S1, todo \ {roomCode})

\* the interval callback without its loop over gameRooms
cleanupInactiveRoomsSyncOnly ==
  Result(syncConnectionTracking(State, ConnectedSockets(sockets)),
         timers, pending, <<>>)

cleanupInactiveRooms ==
  Result(syncConnectionTracking(SweepRooms(State, Codes), ConnectedSockets(sockets)),
         timers, pending, <<>>)

\* the setInterval(cleanupInactiveRooms, 60 * 1000) tick
CleanupInactiveRooms ==
  /\ UNCHANGED <<sockets, userId, now>>
  /\ Commit(cleanupInactiveRooms)

\* --------------------------------------------------- socket.on('gameEnd') ----
\* room.players[1 - playerIndex] for the caller at 1-based position idx; None
\* for undefined
Opponent(players, idx) ==
  IF 3 - idx \in 1..Len(players) THEN players[3 - idx] ELSE None

\* room.guesses.size
GuessesSize(room) == Cardinality({x \in Conns : room.guesses[x] # <<>>})

\* the catch block: socket.emit('error', ...) on the caller's socket
endError(e) ==
  IF IsConnected(e.c)
  THEN <<Emit("error", {e.c}, [message |-> "Failed to update stats"])>>
  ELSE <<>>

\* suspend the call e at the await named stage; PlayerStats.updateStats has
\* been called for player who when who is not None
endAwait(S, e, stage, who, emitted) ==
  LET S1 == [S EXCEPT !.ending = @ \cup {[e EXCEPT !.stage = stage]}]
  IN Result(IF who = None THEN S1
            ELSE [S1 EXCEPT !.updateStatsCalls[e.room][who] = @ + 1],
            timers, pending, emitted)

\* gameEnd from `if (socket.userId)` on: the await of getStats is behind it
endUpdateSelf(S, e) ==
  IF userId[e.c] # None
  THEN endAwait(S, e, "updateSelf", e.c, <<>>)
  ELSE Result(S, timers, pending, <<>>)

\* gameEnd once updateStats for the caller has resolved
endUpdateOpponent(S, e) ==
  LET update == <<Emit("statsUpdate", InRoom(joined, e.roomCode), [playerId |-> e.c])>>
  IN IF GuessesSize(rooms[e.room]) = 2 /\ e.opponentSocket /\ userId[e.opponentId] # None
     THEN endAwait(S, e, "updateOpponent", e.opponentId, update)
     ELSE Result(S, timers, pending, update)

\* socket.on('gameEnd') up to its first await; won and guesses only fill the
\* gameResult handed to updateStats
gameEnd(c, roomCode) ==
  IF roomCode \notin Codes \/ gameRooms[roomCode] = NoRoom THEN Unchanged(<<>>)
  ELSE IF indexOf(rooms[gameRooms[roomCode]].players, c) = 0 THEN Unchanged(<<>>)
  ELSE LET room == rooms[gameRooms[roomCode]]
           opponentId == Opponent(room.players, indexOf(room.players, c))
           opponentSocket == opponentId # None /\ IsConnected(opponentId)
           e == [c |-> c, roomCode |-> roomCode, room |-> gameRooms[roomCode],
                 opponentId |-> opponentId, opponentSocket |-> opponentSocket,
                 stage |-> "start"]
       IN IF opponentSocket /\ userId[opponentId] # None
          THEN endAwait(State, e, "getStats", None, <<>>)
          ELSE endUpdateSelf(State, e)

GameEnd(c, roomCode) ==
  /\ IsConnected(c)
  /\ Cardinality(gameEnd(c, roomCode).S.ending) <= MaxEnding
  /\ \A r \in RoomIds, x \in Conns :
       gameEnd(c, roomCode).S.updateStatsCalls[r][x] <= MaxStatsCalls
  /\ UNCHANGED <<sockets, userId, now>>
  /\ Commit(gameEnd(c, roomCode))

\* the continuation of gameEnd after an await: ok when the Stats Service
\* answered, ~ok when the call rejected
gameEndResume(e, ok) ==
  LET S0 == [State EXCEPT !.ending = @ \ {e}]
  IN IF ~ok THEN Result(S0, timers, pending, endError(e))
     ELSE IF e.stage = "getStats" THEN endUpdateSelf(S0, e)
     ELSE IF e.stage = "updateSelf" THEN endUpdateOpponent(S0, e)
     ELSE Result(S0, timers, pending,
                 <<Emit("statsUpdate", InRoom(joined, e.roomCode),
                        [playerId |-> e.opponentId])>>)

GameEndResume(e, ok) ==
  /\ e \in ending
  /\ \A r \in RoomIds, x \in Conns :
       gameEndResume(e, ok).S.updateStatsCalls[r][x] <= MaxStatsCalls
  /\ UNCHANGED <<sockets, userId, now>>
  /\ Commit(gameEndResume(e, ok))

\* ------------------------------------------------------ app.get('/health') ----
\* the JSON body of the response, read from the collections S after the sync
healthBody(S, actualConnections) ==
  [status |-> "ok",
   tracked_connections |-> Cardinality(S.activeConnections),
   actual_connections |-> actualConnections,
   rooms |-> Cardinality({k \in Codes : S.gameRooms[k] # NoRoom}),
   queue |-> Len(S.matchmakingQueue)]

health ==
  LET S1 == syncConnectionTracking(State, ConnectedSockets(sockets))
  IN Result(S1, timers, pending,
            <<Emit("health", {}, healthBody(S1, syncCount(ConnectedSockets(sockets))))>>)

Health ==
  /\ UNCHANGED <<sockets, userId, now>>
  /\ Commit(health)

\* an hour passes; a pending 5 s timer fires before that.  The clock counts
\* up to MaxTicks hours; from then on an hour passing moves every createdAt an
\* hour back instead (not below 0), which leaves every age now - createdAt as
\* it would be, or above InactiveAge where it would be above it
Tick ==
  /\ timers = <<>>
  /\ IF now < MaxTicks * TickMinutes
     THEN /\ now' = now + TickMinutes
          /\ rooms' = rooms
     ELSE /\ now' = now
          /\ rooms' = [r \in RoomIds |->
                         [rooms[r] EXCEPT !.createdAt =
                            IF @ >= TickMinutes THEN @ - TickMinutes ELSE 0]]
  /\ UNCHANGED <<sockets, userId, joined, gameRooms, matchmakingQueue,
                 activeConnections, socketRooms, socketTypes, timers, pending,
                 ending, updateStatsCalls, index>>

\* ---------------------------------------------------------------- Next ----
\* Spec: two connections and one room code, every handler
Next ==
  \/ \E c \in TwoConns : Connection(c)
  \/ \E c \in Conns : Disconnect(c)
  \/ \E c \in Conns, uid \in UserIds \cup {None}, ok \in BOOLEAN : Authenticate(c, uid, ok)
  \/ \E c \in Conns, k \in OneCode, w \in WordList : CreateRoom(c, k, w)
  \/ \E c \in Conns, k \in OneCode \cup {"x1", ""} : JoinRoom(c, k)
  \/ \E c \in Conns, k \in OneCode, w \in WordList : JoinMatchmaking(c, k, w)
  \/ \E p \in pending, ok \in BOOLEAN : MatchmakingResume(p, ok)
  \/ \E c \in Conns : LeaveMatchmaking(c)
  \/ \E c \in Conns, k \in OneCode, g \in GuessWords, n \in GuessNumbers :
        MakeGuess(c, k, g, n, MaxGuessLen)
  \/ \E i \in 1..MaxTimers : GraceTimer(i)
  \/ CleanupInactiveRooms

Spec == Init /\ [][Next]_vars

\* SpecRooms: three connections and two room codes, the handlers of rooms
\* created by code (no matchmaking), every guess the winning word
NextRooms ==
  \/ \E c \in Conns : Connection(c)
  \/ \E c \in Conns : Disconnect(c)
  \/ \E c \in Conns, k \in Codes, w \in WordList : CreateRoom(c, k, w)
  \/ \E c \in Conns, k \in Codes : JoinRoom(c, k)
  \/ \E c \in Conns, k \in Codes, n \in GuessNumbers : MakeGuess(c, k, "crane", n, MaxGuessLen)
  \/ \E i \in 1..MaxTimers : GraceTimer(i)
  \/ CleanupInactiveRooms

SpecRooms == Init /\ [][NextRooms]_vars

\* SpecGame: two connections that stay connected and one room code, with
\* guess sequences long enough for a draw; the Stats Service answers
NextGame ==
  \/ \E c \in TwoConns : Connection(c)
  \/ \E c \in Conns, uid \in UserIds : Authenticate(c, uid, TRUE)
  \/ \E c \in Conns, k \in OneCode, w \in WordList : CreateRoom(c, k, w)
  \/ \E c \in Conns, k \in OneCode : JoinRoom(c, k)
  \/ \E c \in Conns, k \in OneCode, w \in WordList : JoinMatchmaking(c, k, w)
  \/ \E p \in pending : MatchmakingResume(p, TRUE)
  \/ \E c \in Conns : LeaveMatchmaking(c)
  \/ \E c \in Conns, k \in OneCode, g \in GuessWords : MakeGuess(c, k, g, 1, MaxGameLen)
  \/ \E i \in 1..MaxTimers : GraceTimer(i)

SpecGame == Init /\ [][NextGame]_vars

\* SpecClock: three connections and one room code, rooms created by code, the
\* periodic cleanup and the clock
NextClock ==
  \/ \E c \in Conns : Connection(c)
  \/ \E c \in Conns : Disconnect(c)
  \/ \E c \in Conns, k \in OneCode, w \in WordList : CreateRoom(c, k, w)
  \/ \E c \in Conns, k \in OneCode : JoinRoom(c, k)
  \/ \E c \in Conns, k \in OneCode, g \in GuessWords : MakeGuess(c, k, g, 1, MaxGuessLen)
  \/ \E i \in 1..MaxTimers : GraceTimer(i)
  \/ CleanupInactiveRooms
  \/ Tick

SpecClock == Init /\ [][NextClock]_vars

\* FairClock: SpecClock where time keeps passing (also when clients keep
\* setting grace timers), setInterval keeps calling cleanupInactiveRooms and a
\* pending setTimeout fires
FairClock ==
  /\ SpecClock
  /\ SF_vars(Tick)
  /\ WF_vars(CleanupInactiveRooms)
  /\ \A i \in 1..MaxTimers : WF_vars(GraceTimer(i))

\* SpecSweep: two connections and two room codes, rooms created by code, the
\* periodic cleanup and the clock
NextSweep ==
  \/ \E c \in TwoConns : Connection(c)
  \/ \E c \in TwoConns : Disconnect(c)
  \/ \E c \in TwoConns, k \in Codes, w \in WordList : CreateRoom(c, k, w)
  \/ \E c \in TwoConns, k \in Codes : JoinRoom(c, k)
  \/ CleanupInactiveRooms
  \/ Tick

SpecSweep == Init /\ [][NextSweep]_vars

\* SpecQuick: two connections and two room codes, quick matches next to
\* rooms created by code, no guesses; the Stats Service answers or fails
NextQuick ==
  \/ \E c \in TwoConns : Connection(c)
  \/ \E c \in Conns : Disconnect(c)
  \/ \E c \in Conns, uid \in UserIds : Authenticate(c, uid, TRUE)
  \/ \E c \in Conns, k \in Codes, w \in WordList : CreateRoom(c, k, w)
  \/ \E c \in Conns, k \in Codes : JoinRoom(c, k)
  \/ \E c \in Conns, k \in Codes, w \in WordList : JoinMatchmaking(c, k, w)
  \/ \E p \in pending, ok \in BOOLEAN : MatchmakingResume(p, ok)
  \/ \E c \in Conns : LeaveMatchmaking(c)

SpecQuick == Init /\ [][NextQuick]_vars

\* SpecEnd: two connections and one room code, a room created by code,
\* guesses, and gameEnd with the Stats Service answering or failing
NextEnd ==
  \/ \E c \in TwoConns : Connection(c)
  \/ \E c \in Conns : Disconnect(c)
  \/ \E c \in Conns, uid \in UserIds : Authenticate(c, uid, TRUE)
  \/ \E c \in Conns, k \in OneCode, w \in WordList : CreateRoom(c, k, w)
  \/ \E c \in Conns, k \in OneCode : JoinRoom(c, k)
  \/ \E c \in Conns, k \in OneCode, g \in GuessWords : MakeGuess(c, k, g, 1, MaxGuessLen)
  \/ \E i \in 1..MaxTimers : GraceTimer(i)
  \/ \E c \in Conns, k \in OneCode : GameEnd(c, k)
  \/ \E e \in ending, ok \in BOOLEAN : GameEndResume(e, ok)

SpecEnd == Init /\ [][NextEnd]_vars

\* SpecHealth: two connections and one room code, quick matches and rooms
\* created by code, with the health endpoint polled
NextHealth ==
  \/ \E c \in TwoConns : Connection(c)
  \/ \E c \in Conns : Disconnect(c)
  \/ \E c \in Conns, uid \in UserIds : Authenticate(c, uid, TRUE)
  \/ \E c \in Conns, k \in OneCode, w \in WordList : CreateRoom(c, k, w)
  \/ \E c \in Conns, k \in OneCode : JoinRoom(c, k)
  \/ \E c \in Conns, k \in OneCode, w \in WordList : JoinMatchmaking(c, k, w)
  \/ \E p \in pending, ok \in BOOLEAN : MatchmakingResume(p, ok)
  \/ Health

SpecHealth == Init /\ [][NextHealth]_vars

\* ------------------------------------------------------------- claims ----
\* the codes that have a room in the Room Store
LiveCodes == {k \in Codes : gameRooms[k] # NoRoom}

\* the room stored under k
RoomOf(k) == rooms[gameRooms[k]]

\* the rooms of the Room Store whose players hold c
SeatedIn(c) == {k \in LiveCodes : c \in Range(RoomOf(k).players)}

\* no id occurs twice in the array s
NoDuplicate(s) == \A i, j \in 1..Len(s) : i # j => s[i] # s[j]

\* the position of a status in waiting -> playing -> finished
Rank(status) ==
  CASE status = "waiting" -> 1
    [] status = "playing" -> 2
    [] status = "finished" -> 3
    [] OTHER -> 0

\* the events of the sequence emitted that are named ev
Events(emitted, ev) == {emitted[i] : i \in {j \in 1..Len(emitted) : emitted[j].ev = ev}}

\* C1: every room of the Room Store has at most 2 ids in players, and no id
\* twice, in every reachable state.
C1_AtMostTwoDistinctPlayers ==
  \A k \in LiveCodes :
    /\ Len(RoomOf(k).players) <= RoomSize
    /\ NoDuplicate(RoomOf(k).players)

\* C2: between two handler executions, a connection's role is in_room
\* (socketTypes = 'game') if and only if its id is in the players of some room
\* of the Room Store.
C2_InRoomRoleIffSeated ==
  \A c \in Conns : socketTypes[c] = "game" <=> SeatedIn(c) # {}

\* C3: between two handler executions, a connection's role is queued
\* (socketTypes = 'matchmaking') if and only if its id is in matchmakingQueue,
\* and no connection is both in the queue and seated in a room.
C3_QueuedRoleIffInQueue ==
  \A c \in Conns :
    /\ socketTypes[c] = "matchmaking" <=> c \in Range(matchmakingQueue)
    /\ ~(c \in Range(matchmakingQueue) /\ SeatedIn(c) # {})

\* C4: a connection id is in the players of at most one room of the Room Store
\* at any instant (createRoom, joinRoom and joinMatchmaking evict the caller
\* from the room that seats it before they seat it elsewhere).
C4_AtMostOneRoom ==
  \A c \in Conns : Cardinality(SeatedIn(c)) <= 1

\* C5: socketRooms maps c to code X if and only if room X is in the Room Store
\* and c is in X.players, in every reachable state.
C5_TrackedRoomIffMember ==
  \A c \in Conns, k \in Codes :
    socketRooms[c] = k <=> (k \in LiveCodes /\ c \in Range(RoomOf(k).players))

\* C6: while a room stays in the Room Store its status only advances
\* waiting -> playing -> finished: no step takes it back.
C6_StatusOnlyAdvances ==
  [][\A k \in Codes :
       (gameRooms[k] # NoRoom /\ gameRooms'[k] = gameRooms[k])
         => Rank(rooms'[gameRooms[k]].status) >= Rank(rooms[gameRooms[k]].status)]_vars

\* the cases in which C7 wants makeGuess(c, roomCode, ...) rejected
MustReject(c, roomCode) ==
  \/ roomCode \notin LiveCodes
  \/ RoomOf(roomCode).status # "playing"
  \/ c \notin Range(RoomOf(roomCode).players)
  \/ socketTypes[c] # "game"
  \/ socketRooms[c] # roomCode

\* C7: makeGuess emits nothing and changes nothing whenever the room is not
\* playing or the submitter is not a member of it (its role is not in_room, or
\* its tracked room is not the room it names).
C7_GuessRejected ==
  \A c \in Conns, roomCode \in CodeInputs, guess \in GuessWords, n \in GuessNumbers :
    (IsConnected(c) /\ MustReject(c, roomCode))
      => makeGuess(c, roomCode, guess, n) = Unchanged(<<>>)

\* c is a member of the playing room stored under roomCode
MemberOfPlaying(c, roomCode) ==
  /\ roomCode \in LiveCodes
  /\ RoomOf(roomCode).status = "playing"
  /\ c \in Range(RoomOf(roomCode).players)

\* C8: in a playing room, a member's guess that equals targetWord without
\* regard to case, on any of its turns 1..6, sets the room to finished and
\* emits gameOver with the submitter as winner, its player number and the
\* target word.
C8_WinDetected ==
  \A c \in Conns, roomCode \in Codes, guess \in GuessWords, n \in GuessNumbers :
    ( /\ IsConnected(c)
      /\ MemberOfPlaying(c, roomCode)
      /\ Len(RoomOf(roomCode).guesses[c]) < GuessCap
      /\ toUpperCase(guess) = RoomOf(roomCode).targetWord )
    => LET r == makeGuess(c, roomCode, guess, n)
       IN /\ r.S.rooms[gameRooms[roomCode]].status = "finished"
          /\ \E e \in Events(r.out, "gameOver") :
               e.body = [winner |-> c,
                         winnerNumber |-> indexOf(RoomOf(roomCode).players, c),
                         targetWord |-> RoomOf(roomCode).targetWord]

\* c is about to submit its 6th guess in the playing two-player room stored
\* under roomCode, whose other player has submitted 6
SixthOfBoth(c, roomCode) ==
  /\ MemberOfPlaying(c, roomCode)
  /\ Len(RoomOf(roomCode).players) = RoomSize
  /\ Len(RoomOf(roomCode).guesses[c]) = GuessCap - 1
  /\ \E o \in Range(RoomOf(roomCode).players) \ {c} :
       Len(RoomOf(roomCode).guesses[o]) >= GuessCap

\* C9: in a playing room, the guess with which both players have submitted 6
\* guesses, none the target word, sets the room to finished and emits gameOver
\* with winner = null and isDraw = true; if that guess is the target word it is
\* a win instead (gameOver names the submitter and no draw is emitted).
C9_DrawDetected ==
  \A c \in Conns, roomCode \in Codes, guess \in GuessWords :
    (IsConnected(c) /\ SixthOfBoth(c, roomCode))
    => LET r == makeGuess(c, roomCode, guess, GuessCap)
           over == Events(r.out, "gameOver")
           target == RoomOf(roomCode).targetWord
       IN /\ r.S.rooms[gameRooms[roomCode]].status = "finished"
          /\ IF toUpperCase(guess) = target
             THEN over = {Emit("gameOver", InRoom(joined, roomCode),
                               [winner |-> c,
                                winnerNumber |-> indexOf(RoomOf(roomCode).players, c),
                                targetWord |-> target])}
             ELSE over = {Emit("gameOver", InRoom(joined, roomCode),
                               [winner |-> None, targetWord |-> target,
                                isDraw |-> TRUE])}

\* C10: joinRoom by a connection that is already in the room's players (of a
\* room with 1 or 2 players) answers with the success payload of the room and
\* leaves players as it was, without a second entry of the caller.
C10_RejoinIdempotent ==
  \A c \in Conns, roomCode \in Codes :
    (IsConnected(c) /\ roomCode \in SeatedIn(c) /\ Len(RoomOf(roomCode).players) <= RoomSize)
    => LET r == handleJoinRoom(c, roomCode)
       IN /\ Len(r.out) = 1
          /\ r.out[1].ev = "callback"
          /\ r.out[1].body.success
          /\ r.out[1].body.players = RoomOf(roomCode).players
          /\ r.out[1].body.targetWord = RoomOf(roomCode).targetWord
          /\ r.out[1].body.roomCode = roomCode
          /\ r.S.rooms[gameRooms[roomCode]].players = RoomOf(roomCode).players
          /\ NoDuplicate(r.S.rooms[gameRooms[roomCode]].players)

\* the room objects the Room Store of S holds
Stored(S) == {S.gameRooms[k] : k \in Codes} \ {NoRoom}

\* A is alone in the queue and B is another connection, both live and authenticated
AloneInQueue(A, B) ==
  /\ matchmakingQueue = <<A>>
  /\ A # B
  /\ IsConnected(A) /\ IsConnected(B)
  /\ userId[A] # None /\ userId[B] # None

\* joinMatchmaking by B, with A alone in the queue, creates exactly one room,
\* a playing quick match of [A, B], and empties the queue
PairCreated ==
  \A A, B \in Conns, k \in Codes, w \in WordList :
    (AloneInQueue(A, B) /\ Alloc(Enqueued(B), timers, pending) # NoRoom)
    => LET r == handleMatchmaking(B, k, w)
           rid == r.S.gameRooms[k]
       IN /\ Stored(r.S) \ Stored(State) = {rid}
          /\ r.S.rooms[rid].isQuickMatch
          /\ r.S.rooms[rid].status = "playing"
          /\ r.S.rooms[rid].players = <<A, B>>
          /\ r.S.matchmakingQueue = <<>>
          /\ r.P = pending \cup {[player1 |-> A, player2 |-> B,
                                  roomCode |-> k, room |-> rid]}

\* the suspended handleMatchmaking p finds its room and both players as it left them
Undisturbed(p) ==
  /\ gameRooms[p.roomCode] = p.room
  /\ rooms[p.room].players = <<p.player1, p.player2>>
  /\ IsConnected(p.player1) /\ IsConnected(p.player2)

\* when the Stats lookups succeed, each of the two players is sent gameStart
\* with the room's targetWord, players and code
BothStarted ==
  \A p \in pending :
    Undisturbed(p)
    => LET r == matchmakingResume(p, TRUE)
       IN /\ r.S = State
          /\ \A x \in {p.player1, p.player2} :
               \E e \in Events(r.out, "gameStart") :
                 /\ e.to = {x}
                 /\ e.body.targetWord = rooms[p.room].targetWord
                 /\ e.body.players = <<p.player1, p.player2>>
                 /\ e.body.roomCode = p.roomCode

\* no quick-match room of the Room Store is waiting
QuickNeverWaiting ==
  \A k \in LiveCodes : RoomOf(k).isQuickMatch => RoomOf(k).status # "waiting"

\* C11: A then B call joinMatchmaking on an empty queue and the Stats lookups
\* succeed: exactly one room is created, a quick match that is playing with
\* players [A, B], the queue is left empty, both are sent gameStart with the
\* same targetWord, and the room is never seen waiting.
C11_QuickmatchScenario == PairCreated /\ BothStarted /\ QuickNeverWaiting

\* the pairing of C11 has happened: its room is stored, its continuation suspended
C11_Paired ==
  \E p \in pending :
    /\ Undisturbed(p)
    /\ p.player1 # p.player2
    /\ matchmakingQueue = <<>>
    /\ rooms[p.room].isQuickMatch

\* the answer of a failed request: one callback, to the requester c alone
OnlyError(c, msg) == <<Emit("callback", {c}, [success |-> FALSE, error |-> msg])>>

\* C12: joinRoom on a code with no room is answered 'Room not found', and
\* joinRoom on a room of 2 players by a connection that is not one of them is
\* answered 'Room is full': the answer goes to the requester alone, nothing
\* else is emitted, and rooms, queue and mappings are unchanged.
C12_JoinErrors ==
  \A c \in Conns, input \in CodeInputs \ {""} :
    IsConnected(c)
    => LET roomCode == toUpperCase(input)
           r == handleJoinRoom(c, input)
       IN /\ roomCode \notin LiveCodes
             => r = Unchanged(OnlyError(c, "Room not found"))
          /\ ( /\ roomCode \in LiveCodes
               /\ Len(RoomOf(roomCode).players) = RoomSize
               /\ c \notin Range(RoomOf(roomCode).players) )
             => r = Unchanged(OnlyError(c, "Room is full"))

\* a room of two players and a live third connection, and a code with no room
C12_ThirdAtFullRoom ==
  \E c \in Conns, k \in LiveCodes :
    /\ IsConnected(c)
    /\ Len(RoomOf(k).players) = RoomSize
    /\ NoDuplicate(RoomOf(k).players)
    /\ c \notin Range(RoomOf(k).players)
    /\ Codes \ LiveCodes # {}

\* C13: when a player of a playing quick-match room disconnects, the handler
\* deletes the room, the remaining player is sent playerLeft, and the remaining
\* player's role and roomCode are cleared.
C13_QuickmatchDisconnect ==
  \A c \in Conns, k \in LiveCodes :
    ( /\ IsConnected(c)
      /\ RoomOf(k).isQuickMatch
      /\ RoomOf(k).status = "playing"
      /\ c \in Range(RoomOf(k).players) )
    => LET r == disconnect(c)
           rest == Range(RoomOf(k).players) \ {c}
       IN /\ r.S.gameRooms[k] = NoRoom
          /\ \A o \in rest :
               /\ r.S.socketTypes[o] = None
               /\ r.S.socketRooms[o] = None
               /\ IsConnected(o)
                  => \E e \in Events(r.out, "playerLeft") :
                       o \in e.to /\ e.body = [playerId |-> c]

\* the grace timer i was set for the room that is still stored under its code
TimerOfStored(i) == gameRooms[timers[i][1]] = timers[i][2]

\* C14: every finished room of the Room Store has its grace timer pending;
\* when the timer fires the room is no longer in the Room Store, and if the
\* timer deleted it, every connection in its players has no role and no
\* roomCode in the state the timer leaves.
C14_FinishedRoomRemoved ==
  /\ \A k \in LiveCodes :
       RoomOf(k).status = "finished"
       => \E i \in 1..Len(timers) : timers[i] = <<k, gameRooms[k]>>
  /\ \A i \in 1..Len(timers) :
       LET r == graceTimer(i)
       IN /\ timers[i][2] \notin Stored(r.S)
          /\ TimerOfStored(i)
             => \A c \in Range(rooms[timers[i][2]].players) :
                  r.S.socketTypes[c] = None /\ r.S.socketRooms[c] = None

\* a finished room of two players is stored and its grace timer is pending
C14_TimerPending ==
  \E i \in 1..Len(timers) :
    /\ TimerOfStored(i)
    /\ rooms[timers[i][2]].status = "finished"
    /\ Len(rooms[timers[i][2]].players) = RoomSize
    /\ \A c \in Range(rooms[timers[i][2]].players) : socketTypes[c] = "game"

PastTTL(k) == now - RoomOf(k).createdAt > InactiveAge

NoLivePlayer(k) == \A c \in Range(RoomOf(k).players) : ~IsConnected(c)

C16_SweepDeletesExactlyStale ==
  \A k \in Codes :
    cleanupInactiveRooms.S.gameRooms[k] =
      IF k \in LiveCodes /\ (PastTTL(k) \/ NoLivePlayer(k)) THEN NoRoom ELSE gameRooms[k]

\* a stored room past InactiveAge whose players are all gone without having
\* been removed from it
C16_AbandonedRoom ==
  \E k \in LiveCodes : PastTTL(k) /\ NoLivePlayer(k) /\ RoomOf(k).players # <<>>

\* C17: joinMatchmaking from a connection that has not authenticated emits
\* matchmakingError to that connection alone and leaves the queue, the rooms,
\* the role and room mappings, the tracked connections, the timers and the
\* started matches as they were; every id in the queue has authenticated.
C17_UnauthenticatedRejected ==
  /\ \A c \in Conns, k \in Codes, w \in WordList :
       IsConnected(c) /\ userId[c] = None =>
         LET r == handleMatchmaking(c, k, w)
         IN /\ r.out = <<Emit("matchmakingError", {c}, "Not authenticated")>>
            /\ r.S = State
            /\ r.T = timers
            /\ r.P = pending
  /\ \A i \in 1..Len(matchmakingQueue) : userId[matchmakingQueue[i]] # None

\* a connection that has not authenticated, next to a waiting queue
C17_StrangerAtQueue ==
  /\ matchmakingQueue # <<>>
  /\ \E c \in Conns : IsConnected(c) /\ userId[c] = None /\ socketTypes[c] = "game"

\* C18: a createRoom, or a joinRoom answered with success, from a connection
\* that is in the matchmaking queue leaves the connection out of the queue; no
\* connection is a player of a quick-match room and of a room created by code
\* at once.
JoinSucceeds(c, input) ==
  \E i \in 1..Len(handleJoinRoom(c, input).out) :
    LET e == handleJoinRoom(c, input).out[i]
    IN e.ev = "callback" /\ e.body.success

C18_RoomEntryLeavesQueue ==
  /\ \A c \in Range(matchmakingQueue) :
       IsConnected(c) =>
         /\ \A k \in Codes, w \in WordList :
              gameRooms[k] = NoRoom /\ Alloc(State, timers, pending) # NoRoom =>
                c \notin Range(createRoom(c, k, w).S.matchmakingQueue)
         /\ \A input \in CodeInputs :
              JoinSucceeds(c, input) =>
                c \notin Range(handleJoinRoom(c, input).S.matchmakingQueue)
  /\ \A c \in Conns, k1 \in LiveCodes, k2 \in LiveCodes :
       ~ /\ c \in Range(RoomOf(k1).players) /\ RoomOf(k1).isQuickMatch
         /\ c \in Range(RoomOf(k2).players) /\ ~RoomOf(k2).isQuickMatch

\* C19: the matchmaking queue never holds a connection id twice; enqueueing
\* appends the id at the tail when it is absent and leaves the queue alone when
\* it is present, and no other path, the re-queue after a failed pairing
\* included, inserts an id that is already queued.
C19_QueueWithoutDuplicates ==
  /\ NoDuplicate(matchmakingQueue)
  /\ \A c \in Conns :
       LET q == ConnectedPlayers(cleanupPlayer(State, c).matchmakingQueue)
       IN Enqueued(c).matchmakingQueue = IF c \in Range(q) THEN q ELSE Append(q, c)

\* C20: whenever joinMatchmaking creates a quick-match room, its players are
\* the two live authenticated connections nearest the head of the queue, in
\* queue order as player 1 and player 2, and the connections left in the queue
\* all stood behind them.
RECURSIVE InOrder(_)
InOrder(s) ==
  IF s = <<>> THEN <<>>
  ELSE LET h == InOrder(SubSeq(s, 1, Len(s) - 1))
       IN IF s[Len(s)] \in Range(h) THEN h ELSE Append(h, s[Len(s)])

C20_PairingIsFIFO ==
  \A c \in Conns, k \in Codes, w \in WordList :
    IsConnected(c) /\ userId[c] # None /\ Alloc(Enqueued(c), timers, pending) # NoRoom =>
      LET r == handleMatchmaking(c, k, w)
          waiting == InOrder(Enqueued(c).matchmakingQueue)
      IN \A m \in r.P \ pending :
           /\ Len(waiting) >= 2
           /\ r.S.rooms[m.room].players = <<waiting[1], waiting[2]>>
           /\ m.player1 = waiting[1]
           /\ m.player2 = waiting[2]
           /\ r.S.matchmakingQueue = SubSeq(waiting, 3, Len(waiting))

\* C21: when the start of a game fails after the two selected connections were
\* taken off the queue, every selected connection that is still live is in the
\* queue again, ahead of every connection that was waiting behind the pair, and
\* player 1, who waited longer, is ahead of player 2.
C21_RequeuedAtHeadInOrder ==
  \A p \in pending :
    LET q == matchmakingResume(p, FALSE).S.matchmakingQueue
        selected == {x \in {p.player1, p.player2} : IsConnected(x)}
    IN /\ \A x \in selected : indexOf(q, x) # 0
       /\ \A x \in selected, y \in Range(matchmakingQueue) \ selected :
            indexOf(q, x) < indexOf(q, y)
       /\ selected = {p.player1, p.player2} /\ p.player1 # p.player2 =>
            indexOf(q, p.player1) < indexOf(q, p.player2)

\* C22: cleanupPlayer(c) leaves c out of the tracked connections, out of the
\* matchmaking queue, out of the players and the guesses of every stored room,
\* and without role and room code; a second cleanupPlayer(c) changes nothing.
C22_CleanupPlayerRemovesAll ==
  \A c \in Conns :
    LET S1 == cleanupPlayer(State, c)
    IN /\ c \notin S1.activeConnections
       /\ c \notin Range(S1.matchmakingQueue)
       /\ \A rid \in Stored(S1) :
            c \notin Range(S1.rooms[rid].players) /\ S1.rooms[rid].guesses[c] = <<>>
       /\ S1.socketTypes[c] = None
       /\ S1.socketRooms[c] = None
       /\ cleanupPlayer(S1, c) = S1

\* C23: for any set of live connection ids, syncConnectionTracking leaves the
\* tracked connections equal to that set, and the count it returns is the size
\* of that set.
C23_SyncTracksExactlyLive ==
  \A liveIds \in SUBSET Conns :
    /\ syncConnectionTracking(State, liveIds).activeConnections = liveIds
    /\ syncCount(liveIds) = Cardinality(syncConnectionTracking(State, liveIds).activeConnections)

\* a live connection is not tracked, and a tracked one holds a seat
C23_LiveUntracked ==
  /\ ConnectedSockets(sockets) \ activeConnections # {}
  /\ \E c \in activeConnections : SeatedIn(c) # {}

\* C24: after a run of cleanupInactiveRooms no connection that is not live is
\* in the matchmaking queue, in the players of a stored room, or has a role or
\* a room code.
C24_SweepPurgesDeadConnections ==
  LET S1 == cleanupInactiveRooms.S
  IN \A c \in Conns :
       ~IsConnected(c) =>
         /\ c \notin Range(S1.matchmakingQueue)
         /\ \A rid \in Stored(S1) : c \notin Range(S1.rooms[rid].players)
         /\ S1.socketTypes[c] = None
         /\ S1.socketRooms[c] = None

\* C25: serving GET /health leaves the Room Store, the matchmaking queue, the
\* role and room-code mappings and the tracked connections as they were, and
\* reports the tracked count, the live count, the room count and the queue
\* length of that state.
C25_HealthReadOnly ==
  /\ health.S = State
  /\ health.T = timers
  /\ health.P = pending
  /\ health.out = <<Emit("health", {},
                         healthBody(State, Cardinality(ConnectedSockets(sockets))))>>

\* C26: createRoom and the pairing of joinMatchmaking never store their new
\* room under a code that a stored room uses: every code that holds a room
\* when the new room is stored holds the same room, with the same targetWord,
\* afterwards.
C26_LiveCodeNeverOverwritten ==
  /\ \A c \in Conns, k \in Codes, w \in WordList :
       IsConnected(c) /\ gameRooms[k] = NoRoom /\ Alloc(State, timers, pending) # NoRoom =>
         \A k2 \in LiveCodes :
           /\ createRoom(c, k, w).S.gameRooms[k2] = gameRooms[k2]
           /\ createRoom(c, k, w).S.rooms[gameRooms[k2]].targetWord = RoomOf(k2).targetWord
  /\ \A c \in Conns, k \in Codes, w \in WordList :
       IsConnected(c) /\ userId[c] # None /\ Alloc(Enqueued(c), timers, pending) # NoRoom =>
         \A k2 \in Codes :
           Enqueued(c).gameRooms[k2] # NoRoom =>
             /\ handleMatchmaking(c, k, w).S.gameRooms[k2] = Enqueued(c).gameRooms[k2]
             /\ handleMatchmaking(c, k, w).S.rooms[Enqueued(c).gameRooms[k2]].targetWord
                  = Enqueued(c).rooms[Enqueued(c).gameRooms[k2]].targetWord

\* C27: in every reachable state, in every stored room, each player's guess
\* array has at most GuessCap entries: a player with GuessCap guesses cannot
\* add another while the opponent has fewer.
C27_AtMostSixGuesses ==
  \A k \in LiveCodes, c \in Conns : Len(RoomOf(k).guesses[c]) <= GuessCap

\* C28: in every reachable state a stored room that is playing has exactly
\* two players and one that is waiting has at most one; makeGuess stores and
\* broadcasts a guess only for a room with exactly two players.
C28_StatusMatchesPlayerCount ==
  /\ \A k \in LiveCodes :
       /\ RoomOf(k).status = "playing" => Len(RoomOf(k).players) = RoomSize
       /\ RoomOf(k).status = "waiting" => Len(RoomOf(k).players) <= 1
  /\ \A c \in Conns, k \in LiveCodes, guess \in GuessWords, n \in GuessNumbers :
       IsConnected(c) /\ makeGuess(c, k, guess, n) # Unchanged(<<>>) =>
         Len(RoomOf(k).players) = RoomSize

\* C29: when a player leaves a room created by code that has two players, the
\* room stays in the Room Store with the other player alone, and its status is
\* waiting afterwards.
C29_ManualRoomBackToWaiting ==
  \A c \in Conns, k \in LiveCodes :
    /\ ~RoomOf(k).isQuickMatch
    /\ Len(RoomOf(k).players) = RoomSize
    /\ NoDuplicate(RoomOf(k).players)
    /\ c \in Range(RoomOf(k).players)
    /\ socketRooms[c] = k
    => LET S1 == cleanupPlayer(State, c)
       IN /\ S1.gameRooms[k] = gameRooms[k]
          /\ S1.rooms[gameRooms[k]].players = Without(RoomOf(k).players, c)
          /\ S1.rooms[gameRooms[k]].status = "waiting"

\* the live players that stay behind in c's tracked room when c is removed from it
LeftBehind(c) ==
  IF socketRooms[c] # None /\ socketRooms[c] \in LiveCodes
     /\ c \in Range(RoomOf(socketRooms[c]).players)
  THEN {y \in Range(RoomOf(socketRooms[c]).players) \ {c} : IsConnected(y)}
  ELSE {}

\* the events emitted hold a playerLeft naming c that reaches all of others
Notified(emitted, c, others) ==
  others # {} =>
    \E i \in 1..Len(emitted) :
      /\ emitted[i].ev = "playerLeft"
      /\ emitted[i].body = [playerId |-> c]
      /\ others \subseteq emitted[i].to

\* C30: whenever a player is removed from a room in which other live players
\* stay behind, a playerLeft event naming the player goes to those players,
\* whether the removal comes from the player's disconnect, from its
\* joinMatchmaking while seated, or from the reconciliation of a tracked
\* connection that is no longer live.
C30_EvictionNotifiesRemaining ==
  /\ \A c \in Conns :
       IsConnected(c) => Notified(disconnect(c).out, c, LeftBehind(c))
  /\ \A c \in Conns, k \in Codes, w \in WordList :
       IsConnected(c) /\ userId[c] # None =>
         Notified(handleMatchmaking(c, k, w).out, c, LeftBehind(c))
  /\ \A c \in activeConnections \ ConnectedSockets(sockets) :
       Notified(cleanupInactiveRooms.out, c, LeftBehind(c))

\* C31: for every accepted guess the first event emitted is the guessUpdate
\* for it, addressed to every live player of the room, the submitter included;
\* a gameOver caused by the guess comes after that guessUpdate, never without it.
C31_GuessUpdateToAllThenGameOver ==
  \A c \in Conns, k \in Codes, guess \in GuessWords, n \in GuessNumbers :
    IsConnected(c) /\ GuessAccepted(c, k) =>
      LET emitted == makeGuess(c, k, guess, n).out
      IN /\ Len(emitted) >= 1
         /\ emitted[1].ev = "guessUpdate"
         /\ emitted[1].body.playerId = c
         /\ emitted[1].body.guess = guess
         /\ \A p \in Range(RoomOf(k).players) : IsConnected(p) => p \in emitted[1].to
         /\ \A i \in 1..Len(emitted) :
              emitted[i].ev = "gameOver" => i > 1 /\ emitted[i].to = emitted[1].to

\* a game that a guess has just ended, both players live, one seated elsewhere too
C31_GameEndedByGuess ==
  \E k \in LiveCodes :
    /\ RoomOf(k).status = "finished"
    /\ Len(RoomOf(k).players) = RoomSize
    /\ \A p \in Range(RoomOf(k).players) : IsConnected(p)
    /\ \E p \in Range(RoomOf(k).players) : RoomOf(k).guesses[p] # <<>> /\ socketRooms[p] # k
    /\ \E i \in 1..Len(timers) : timers[i] = <<k, gameRooms[k]>>

\* C32: in every guessUpdate, guessNumber is the length of the submitter's
\* guess array right after the append, whatever counter the client sent, and
\* playerNumber is the submitter's 1-based position in players (1 or 2).
C32_ServerComputedNumbers ==
  \A c \in Conns, k \in Codes, guess \in GuessWords, n \in GuessNumbers :
    IsConnected(c) /\ GuessAccepted(c, k) =>
      \A e \in Events(makeGuess(c, k, guess, n).out, "guessUpdate") :
        /\ e.body.guessNumber = Len(RoomOf(k).guesses[c]) + 1
        /\ e.body.playerNumber \in 1..RoomSize
        /\ RoomOf(k).players[e.body.playerNumber] = c

\* the room a suspended handleMatchmaking call works on is still stored under
\* its code with the two players it seated
StillPaired(p) ==
  /\ gameRooms[p.roomCode] = p.room
  /\ rooms[p.room].players = <<p.player1, p.player2>>

\* the room a suspended gameEnd call works on is still stored under its code
\* with the caller and the opponent it found
StillSeated(e) ==
  /\ gameRooms[e.roomCode] = e.room
  /\ e.c \in Range(rooms[e.room].players)
  /\ e.opponentId # None => e.opponentId \in Range(rooms[e.room].players)

\* C33: a continuation that resumes after a Stats Service await, of
\* handleMatchmaking or of gameEnd, whose room was deleted or lost a player
\* during the await emits no gameStart and no statsUpdate and changes nothing.
C33_LateResponseDiscarded ==
  /\ \A p \in pending, ok \in BOOLEAN :
       ~StillPaired(p) =>
         /\ Events(matchmakingResume(p, ok).out, "gameStart") = {}
         /\ matchmakingResume(p, ok).S = State
  /\ \A e \in ending, ok \in BOOLEAN :
       ~StillSeated(e) =>
         /\ Events(gameEndResume(e, ok).out, "statsUpdate") = {}
         /\ gameEndResume(e, ok).S = [State EXCEPT !.ending = @ \ {e}]

\* C34: when the start of a quick match throws after its room was created,
\* the state the catch block leaves has each of the two players, if live,
\* either seated in a stored room or in the queue and not both, and no stored
\* room has a player whose role is 'matchmaking'.
C34_CatchLeavesConsistentState ==
  \A p \in pending :
    LET S1 == matchmakingResume(p, FALSE).S
        seated(x) == \E rid \in Stored(S1) : x \in Range(S1.rooms[rid].players)
        queued(x) == x \in Range(S1.matchmakingQueue)
    IN /\ \A x \in {p.player1, p.player2} :
            IsConnected(x) => (seated(x) /\ ~queued(x)) \/ (queued(x) /\ ~seated(x))
       /\ \A rid \in Stored(S1) :
            \A x \in Range(S1.rooms[rid].players) : S1.socketTypes[x] # "matchmaking"

\* the events the server sends to a room code
RoomEvents == {"guessUpdate", "gameOver", "playerJoined", "gameStart",
               "playerLeft", "statsUpdate"}

\* the players of the room stored under k in S
PlayersOf(S, k) ==
  IF k \notin Codes \/ S.gameRooms[k] = NoRoom THEN {}
  ELSE Range(S.rooms[S.gameRooms[k]].players)

\* every room event of the handler result r, sent to code k, is addressed to
\* players the room has before or after the handler
ToPlayersOnly(r, k) ==
  \A i \in 1..Len(r.out) :
    r.out[i].ev \in RoomEvents =>
      r.out[i].to \subseteq PlayersOf(State, k) \cup PlayersOf(r.S, k)

\* C35: the events sent to a room code (guessUpdate, gameOver, playerJoined,
\* gameStart, playerLeft, statsUpdate) reach only connections that are in the
\* players of that room: not a connection that cleanupPlayer removed from it,
\* nor any other connection.
C35_BroadcastToPlayersOnly ==
  /\ \A c \in Conns, k \in Codes :
       IsConnected(c) =>
         /\ \A guess \in GuessWords, n \in GuessNumbers :
              ToPlayersOnly(makeGuess(c, k, guess, n), k)
         /\ ToPlayersOnly(handleJoinRoom(c, k), k)
         /\ socketRooms[c] = k => ToPlayersOnly(disconnect(c), k)
  /\ \A e \in ending : ToPlayersOnly(gameEndResume(e, TRUE), e.roomCode)

\* C36: when the timer set for a finished room fires, it clears the role and
\* the room code only of connections whose tracked room is that room; a
\* connection tracked in another room by then keeps its role and its mapping.
C36_TimerSparesMovedPlayers ==
  \A i \in 1..Len(timers) :
    \A c \in Conns :
      socketRooms[c] # timers[i][1] =>
        /\ graceTimer(i).S.socketTypes[c] = socketTypes[c]
        /\ graceTimer(i).S.socketRooms[c] = socketRooms[c]

\* C37: a stored room starts at most once and ends at most once: a room that
\* is playing or finished (its gameStart went out) gets no further gameStart
\* from a joinRoom, and a room that is finished (its gameOver went out) gets no
\* further gameOver from a makeGuess.
C37_StartsAndEndsOnce ==
  \A k \in LiveCodes, c \in Conns :
    IsConnected(c) =>
      /\ RoomOf(k).status \in {"playing", "finished"} =>
           \A input \in CodeInputs :
             toUpperCase(input) = k =>
               Events(handleJoinRoom(c, input).out, "gameStart") = {}
      /\ RoomOf(k).status = "finished" =>
           \A guess \in GuessWords, n \in GuessNumbers :
             Events(makeGuess(c, k, guess, n).out, "gameOver") = {}

(* C38: between two handler executions every connection that is live at    *)
(* the transport layer and whose connection event has been processed is    *)
(* in activeConnections: no eviction, unregistration, enqueueing or stale  *)
(* room deletion removes a live connection from the tracked set.           *)
C38_LiveConnectionsTracked ==
  \A c \in Conns : IsConnected(c) => c \in activeConnections

(* C39: for a finished game PlayerStats.updateStats is called at most once *)
(* for each player of the room, however many gameEnd messages the players  *)
(* send, and a gameEnd from a connection that is not a member of an        *)
(* existing room calls it for nobody.                                      *)
C39_StatsUpdatedOncePerPlayer ==
  /\ \A r \in Stored(State), x \in Conns :
       rooms[r].status = "finished" => updateStatsCalls[r][x] <= 1
  /\ \A c \in Conns, k \in Codes :
       (IsConnected(c) /\ (gameRooms[k] = NoRoom \/ c \notin Range(RoomOf(k).players))) =>
         gameEnd(c, k).S.updateStatsCalls = updateStatsCalls

\* ======================================================== index.js ========
\* The index.js server (src/unnamed/part_001; src/src/index.js is the same
\* program up to its options): rooms is a Map roomCode -> room, the
\* matchmakingQueue a Set in insertion order, currentRoom the variable each
\* connection's handlers close over.  Every handler is synchronous.  The
\* handlers are operators from the state I of that server to the state they
\* leave; the emits, socket.join and the created stamp, which no handler
\* reads, are left out.

\* Map.prototype.set and Map.prototype.delete
MapSet(m, k, v) == [x \in DOMAIN m \cup {k} |-> IF x = k THEN v ELSE m[x]]
MapDelete(m, k) == [x \in DOMAIN m \ {k} |-> m[x]]

\* io.sockets.sockets.get(playerId)
indexSocket(I, c) == I.sockets[c] = "connected"

\* createNewRoom(players): roomCode is what Math.random() gives, with no
\* test against the codes in use
createNewRoom(I, players, roomCode, word) ==
  [I EXCEPT !.rooms = MapSet(@, roomCode,
     [players |-> players, status |-> "waiting", targetWord |-> toUpperCase(word),
      readyPlayers |-> {}, guesses |-> [c \in Conns |-> <<>>],
      isMatchmaking |-> Len(players) > 0])]

checkForMatches(I, roomCode, word) ==
  IF Len(I.matchmakingQueue) >= 2
  THEN LET players == SubSeq(I.matchmakingQueue, 1, 2)
           I1 == createNewRoom(I, players, roomCode, word)
       IN [I1 EXCEPT
             !.matchmakingQueue = SelectSeq(@, LAMBDA y : y \notin Range(players)),
             !.rooms[roomCode].readyPlayers =
                 @ \cup {x \in Range(players) : indexSocket(I, x)},
             !.rooms[roomCode].status = "playing"]
  ELSE I

\* the block each of joinMatchmaking, createRoom and joinRoom runs on the room
\* of currentRoom: oldRoom.players.filter, readyPlayers.delete, rooms.delete
cleanOldRoom(I, c) ==
  LET k == I.currentRoom[c]
  IN IF k \notin DOMAIN I.rooms THEN I
     ELSE IF Without(I.rooms[k].players, c) = <<>>
          THEN [I EXCEPT !.rooms = MapDelete(@, k)]
          ELSE [I EXCEPT !.rooms[k].players = Without(@, c),
                         !.rooms[k].readyPlayers = @ \ {c}]

indexJoinMatchmaking(I, c, roomCode, word) ==
  LET I1 == IF I.currentRoom[c] # None
            THEN [cleanOldRoom(I, c) EXCEPT !.currentRoom[c] = None]
            ELSE I
      I2 == [I1 EXCEPT !.matchmakingQueue =
                          IF c \in Range(@) THEN @ ELSE Append(@, c)]
  IN checkForMatches(I2, roomCode, word)

indexLeaveMatchmaking(I, c) ==
  [I EXCEPT !.matchmakingQueue = Without(@, c)]

\* the state createRoom draws its code in: the old room is cleaned up first
indexCreateRoomClean(I, c) ==
  IF I.currentRoom[c] # None THEN cleanOldRoom(I, c) ELSE I

\* roomCode is the code the do ... while (rooms.has(roomCode)) loop ends with
indexCreateRoom(I, c, roomCode, word) ==
  [indexCreateRoomClean(I, c) EXCEPT
     !.rooms = MapSet(@, roomCode,
        [players |-> <<c>>, status |-> "waiting", targetWord |-> toUpperCase(word),
         readyPlayers |-> {c}, guesses |-> [x \in Conns |-> <<>>],
         isMatchmaking |-> FALSE]),
     !.currentRoom[c] = roomCode]

\* if (room.players.length === 2 && room.readyPlayers.size === 2)
indexStart(I, roomCode) ==
  IF Len(I.rooms[roomCode].players) = 2 /\ Cardinality(I.rooms[roomCode].readyPlayers) = 2
  THEN [I EXCEPT !.rooms[roomCode].status = "playing"]
  ELSE I

indexJoinRoom(I, c, input) ==
  LET roomCode == toUpperCase(input)
  IN IF roomCode \notin DOMAIN I.rooms THEN I
     ELSE IF Len(I.rooms[roomCode].players) >= 2 THEN I
     ELSE IF c \in Range(I.rooms[roomCode].players) THEN I
     ELSE LET I1 == IF I.currentRoom[c] # None /\ I.currentRoom[c] # roomCode
                    THEN cleanOldRoom(I, c)
                    ELSE I
              I2 == [I1 EXCEPT !.rooms[roomCode].players = Append(@, c),
                               !.currentRoom[c] = roomCode,
                               !.rooms[roomCode].readyPlayers = @ \cup {c}]
          IN indexStart(I2, roomCode)

indexReady(I, c, roomCode) ==
  IF roomCode \in DOMAIN I.rooms /\ c \in Range(I.rooms[roomCode].players)
  THEN indexStart([I EXCEPT !.rooms[roomCode].readyPlayers = @ \cup {c}], roomCode)
  ELSE I

\* room.status = 'finished' and setTimeout(() => rooms.delete(roomCode), 5000)
indexFinish(I, roomCode) ==
  [I EXCEPT !.rooms[roomCode].status = "finished",
            !.timers = Append(@, roomCode)]

\* room.players.find(id => id !== socket.id): None when there is no such id
otherPlayer(players, c) ==
  IF Without(players, c) = <<>> THEN None ELSE Head(Without(players, c))

indexMakeGuess(I, c, roomCode, guess) ==
  IF roomCode \notin DOMAIN I.rooms THEN I
  ELSE IF I.rooms[roomCode].status # "playing" THEN I
  ELSE LET I1 == [I EXCEPT !.rooms[roomCode].guesses[c] = Append(@, guess)]
           room == I1.rooms[roomCode]
           other == otherPlayer(room.players, c)
       IN IF toUpperCase(guess) = room.targetWord THEN indexFinish(I1, roomCode)
          ELSE IF Len(room.guesses[c]) >= GuessCap
                  /\ other # None /\ Len(room.guesses[other]) >= GuessCap
               THEN indexFinish(I1, roomCode)
               ELSE I1

\* the closure of setTimeout: if (rooms.has(roomCode)) rooms.delete(roomCode)
indexGraceTimer(I) ==
  [I EXCEPT !.rooms = MapDelete(@, Head(I.timers)),
            !.timers = Tail(@)]

\* socket.on('disconnect'); the closure holding currentRoom ends with the socket
indexDisconnect(I, c) ==
  LET I1 == [I EXCEPT !.matchmakingQueue = Without(@, c),
                      !.sockets[c] = "closed",
                      !.currentRoom[c] = None]
      k == I.currentRoom[c]
  IN IF k = None \/ k \notin DOMAIN I.rooms THEN I1
     ELSE IF Without(I.rooms[k].players, c) = <<>> \/ I.rooms[k].status = "waiting"
          THEN [I1 EXCEPT !.rooms = MapDelete(@, k)]
          ELSE [I1 EXCEPT !.rooms[k].players = Without(@, c)]

\* ------------------------------------------------- index.js: actions ----
\* a step of the index.js server leaves the server.js server as it is
IndexStep(I) ==
  /\ index' = I
  /\ UNCHANGED <<sockets, userId, joined, gameRooms, rooms, matchmakingQueue,
                 activeConnections, socketRooms, socketTypes, timers, pending,
                 ending, updateStatsCalls, now>>

IndexConnection(c) ==
  /\ index.sockets[c] = "fresh"
  /\ IndexStep([index EXCEPT !.sockets[c] = "connected"])

IndexDisconnect(c) ==
  /\ indexSocket(index, c)
  /\ IndexStep(indexDisconnect(index, c))

IndexJoinMatchmaking(c, roomCode, word) ==
  /\ indexSocket(index, c)
  /\ IndexStep(indexJoinMatchmaking(index, c, roomCode, word))

IndexLeaveMatchmaking(c) ==
  /\ indexSocket(index, c)
  /\ IndexStep(indexLeaveMatchmaking(index, c))

IndexCreateRoom(c, roomCode, word) ==
  /\ indexSocket(index, c)
  /\ roomCode \notin DOMAIN indexCreateRoomClean(index, c).rooms
  /\ IndexStep(indexCreateRoom(index, c, roomCode, word))

IndexJoinRoom(c, input) ==
  /\ indexSocket(index, c)
  /\ IndexStep(indexJoinRoom(index, c, input))

IndexReady(c, roomCode) ==
  /\ indexSocket(index, c)
  /\ IndexStep(indexReady(index, c, roomCode))

IndexMakeGuess(c, roomCode, guess) ==
  /\ indexSocket(index, c)
  /\ Len(index.timers) < MaxTimers
  /\ roomCode \in DOMAIN index.rooms => Len(index.rooms[roomCode].guesses[c]) < MaxGuessLen
  /\ IndexStep(indexMakeGuess(index, c, roomCode, guess))

IndexGraceTimer ==
  /\ index.timers # <<>>
  /\ IndexStep(indexGraceTimer(index))

\* SpecIndex: the index.js server with two connections and two room codes
NextIndex ==
  \/ \E c \in TwoConns : IndexConnection(c)
  \/ \E c \in Conns : IndexDisconnect(c)
  \/ \E c \in Conns, k \in Codes, w \in WordList : IndexJoinMatchmaking(c, k, w)
  \/ \E c \in Conns : IndexLeaveMatchmaking(c)
  \/ \E c \in Conns, k \in Codes, w \in WordList : IndexCreateRoom(c, k, w)
  \/ \E c \in Conns, k \in CodeInputs : IndexJoinRoom(c, k)
  \/ \E c \in Conns, k \in Codes : IndexReady(c, k)
  \/ \E c \in Conns, k \in Codes, g \in GuessWords : IndexMakeGuess(c, k, g)
  \/ IndexGraceTimer

SpecIndex == Init /\ [][NextIndex]_vars

(* C40: in the index.js server a room that checkForMatches made for a      *)
(* matched pair follows its players' disconnects: a player that has        *)
(* disconnected is no longer in the room's players, and a room whose two   *)
(* players have both disconnected is no longer in rooms.                   *)
C40_MatchedRoomFollowsDisconnects ==
  \A k \in DOMAIN index.rooms :
    index.rooms[k].isMatchmaking =>
      /\ \A p \in Range(index.rooms[k].players) : indexSocket(index, p)
      /\ \E p \in Range(index.rooms[k].players) : indexSocket(index, p)
====
